---- MODULE Spec2Model ----
(***************************************************************************)
(* A model of art<T> (include/art/art.hpp): the adaptive radix tree's      *)
(* get, set, del and destructor, as a state machine over the tree the      *)
(* root pointer reaches.                                                   *)
(*                                                                         *)
(* Representation.  A node pointer slot is named by the sequence of        *)
(* partial keys that leads to it from the root slot: <<>> is &root_,       *)
(* <<b>> is the slot of the root's child under byte b, and so on.  The     *)
(* variable root_ maps every slot that holds a non-null pointer to the     *)
(* node it points to.  A node that was released with delete but whose      *)
(* pointer is still stored in a slot stays in the map with live = FALSE:   *)
(* it is a dangling pointer, and the record keeps the bytes the node held  *)
(* when it was released.                                                   *)
(*                                                                         *)
(* Undefined behaviour.  An operation that dereferences a dangling         *)
(* pointer has two modelled outcomes, chosen nondeterministically: the     *)
(* released memory still holds its old bytes and the operation runs on     *)
(* them (the fault is recorded in faults), or the access traps and the     *)
(* process ends (crashed).  The allocator is modelled as handing out       *)
(* addresses no slot still holds.  A byte read from an uninitialised       *)
(* array cell is any byte of GapBytes.                                     *)
(*                                                                         *)
(* node.hpp, node_0.hpp, node_4.hpp and the other node classes are not     *)
(* part of the sources at hand; the node operations art.hpp calls          *)
(* (check_prefix, find_child, n_children, is_full, grow, ...) are          *)
(* modelled from the node contract of the specification, section 4.1.      *)
(***************************************************************************)
EXTENDS Integers, Sequences, FiniteSets, TLC

VARIABLES root_, ref, last, faults, leaked, crashed, dropped, nops

vars == <<root_, ref, last, faults, leaked, crashed, dropped, nops>>

(***************************************************************************)
(* Bounds of the model.                                                    *)
(***************************************************************************)
MaxByte == 1      \* key bytes of the general specification are 0..MaxByte
MaxKeyLen == 2    \* keys of the general specification have length 0..MaxKeyLen
MaxVal == 2       \* value handles are 1..MaxVal
MaxOps == 4       \* operations per behaviour of the general specification
FanCount == 20    \* keys of the fan-out scenario (SpecFan)
FanTarget == 3    \* bound keys the fan-out scenario deletes down to

nullptr == 0          \* the null value handle
trap == nullptr - 1   \* what an operation that trapped "returns"
null_slot == <<-1>>   \* the null node-slot pointer (no slot is named so)
Values == 1..MaxVal
Bytes == 0..MaxByte
FanBytes == 0..(FanCount - 1)
GapBytes == 0..(MaxByte + 1)

RECURSIVE SeqsUpTo(_, _)
SeqsUpTo(S, n) ==
  IF n = 0 THEN {<<>>}
  ELSE LET shorter == SeqsUpTo(S, n - 1)
       IN  shorter \cup {Append(s, b) : s \in shorter, b \in S}

Keys == SeqsUpTo(Bytes, MaxKeyLen)
FanKeys == {<<b>> : b \in FanBytes}

Min2(a, b) == IF a < b THEN a ELSE b

(***************************************************************************)
(* Node classes and the node contract (specification, section 4.1).        *)
(***************************************************************************)
Classes == <<"N0", "N4", "N16", "N48", "N256">>

capacity(cls) ==
  CASE cls = "N0" -> 0
    [] cls = "N4" -> 4
    [] cls = "N16" -> 16
    [] cls = "N48" -> 48
    [] cls = "N256" -> 256

ClassIndex(cls) == CHOOSE i \in 1..Len(Classes) : Classes[i] = cls

\* A fresh node_0 / node_4: no prefix, no value, no children.
new_node(cls) == [cls |-> cls, prefix |-> <<>>, value |-> nullptr, live |-> TRUE]

(***************************************************************************)
(* Slots.                                                                  *)
(***************************************************************************)
IsPrefixOf(p, q) == Len(p) <= Len(q) /\ SubSeq(q, 1, Len(p)) = p

Tail_(q, n) == SubSeq(q, n + 1, Len(q))

\* The partial keys under which the node in slot `cur` has a child.
partial_keys(t, cur) ==
  {q[Len(q)] : q \in {r \in DOMAIN t : Len(r) = Len(cur) + 1 /\ IsPrefixOf(cur, r)}}

n_children(t, cur) == Cardinality(partial_keys(t, cur))

\* find_child: the child slot, or null when no child is stored under b.
find_child(t, cur, b) ==
  IF Append(cur, b) \in DOMAIN t THEN Append(cur, b) ELSE null_slot

\* The smallest present partial key >= floor.
next_partial_key(t, cur, floor) ==
  LET ge == {b \in partial_keys(t, cur) : b >= floor}
  IN  CHOOSE b \in ge : \A c \in ge : b <= c

is_full(t, cur) == n_children(t, cur) >= capacity(t[cur].cls)

\* N0 has nothing below it; N4 is underfull below 2 children; N16, N48 and
\* N256 are underfull at the capacity of the class below.
is_underfull(t, cur) ==
  LET cls == t[cur].cls
      n == n_children(t, cur)
  IN  CASE cls = "N0" -> FALSE
        [] cls = "N4" -> n < 2
        [] OTHER -> n <= capacity(Classes[ClassIndex(cls) - 1])

\* Number of leading bytes on which prefix and key agree.
check_prefix(prefix, key) ==
  LET m == Min2(Len(prefix), Len(key))
  IN  CHOOSE n \in 0..m :
        /\ \A i \in 1..n : prefix[i] = key[i]
        /\ n = m \/ prefix[n + 1] # key[n + 1]

\* The nodes reached through slot p, re-addressed relative to p.
subtree(t, p) ==
  [r \in {Tail_(q, Len(p)) : q \in {s \in DOMAIN t : IsPrefixOf(p, s)}} |-> t[p \o r]]

\* *p = (root of sub): slot p now leads to the nodes of sub; what it led to
\* before is no longer reachable through it.
store(t, p, sub) ==
  LET kept == {q \in DOMAIN t : ~IsPrefixOf(p, q)}
  IN  [q \in kept \cup {p \o r : r \in DOMAIN sub} |->
         IF IsPrefixOf(p, q) THEN sub[Tail_(q, Len(p))] ELSE t[q]]

\* set_child(b, child) on the root of sub.
set_child(sub, b, child) ==
  [q \in DOMAIN sub \cup {<<b>> \o r : r \in DOMAIN child} |->
     IF q # <<>> /\ q[1] = b /\ Tail_(q, 1) \in DOMAIN child
     THEN child[Tail_(q, 1)] ELSE sub[q]]

\* del_child(b) on the node in slot p: the entry under b is removed.
del_child(t, p, b) ==
  [q \in {s \in DOMAIN t : ~IsPrefixOf(Append(p, b), s)} |-> t[q]]

\* A single node with no children, as a subtree.
single(n) == [r \in {<<>>} |-> n]

\* Faults of releasing the node n with delete.
release(n) == IF n.live THEN {} ELSE {"use_after_free", "double_free"}

\* Faults of reading or writing a field of the node n.
touch(n) == IF n.live THEN {} ELSE {"use_after_free"}

\* grow(): a node of the next class with the same prefix, value and
\* children; the old node is released.
grow(t, cur) ==
  [t EXCEPT ![cur].cls = Classes[ClassIndex(@) + 1], ![cur].live = TRUE]

\* shrink(): a node of the class below with the same prefix and value and
\* as many of the children as it can hold; the old node is released.
shrink(t, cur) ==
  LET cls == Classes[ClassIndex(t[cur].cls) - 1]
      keep == IF capacity(cls) = 0 THEN {}
              ELSE partial_keys(t, cur)
      dom == {q \in DOMAIN t :
                IsPrefixOf(cur, q) /\ q # cur => q[Len(cur) + 1] \in keep}
  IN  [q \in dom |-> IF q = cur THEN [t[q] EXCEPT !.cls = cls, !.live = TRUE]
                     ELSE t[q]]

(***************************************************************************)
(* get (art.hpp 109-128).                                                  *)
(***************************************************************************)
RECURSIVE get_loop(_, _, _, _, _)
get_loop(t, key, cur, depth, f) ==
  IF cur = null_slot THEN [ret |-> nullptr, faults |-> f]
  ELSE
    LET n == t[cur]
        f1 == f \cup touch(n)
    IN  IF Len(n.prefix) # check_prefix(n.prefix, Tail_(key, depth))
        THEN [ret |-> nullptr, faults |-> f1]
        ELSE IF Len(n.prefix) = Len(key) - depth
        THEN [ret |-> n.value, faults |-> f1]
        ELSE get_loop(t, key,
                      find_child(t, cur, key[depth + Len(n.prefix) + 1]),
                      depth + Len(n.prefix) + 1, f1)

get(t, key) ==
  get_loop(t, key, IF <<>> \in DOMAIN t THEN <<>> ELSE null_slot, 0, {})

(***************************************************************************)
(* set (art.hpp 134-290).  The result names the branch taken (kase).       *)
(***************************************************************************)
\* A node_0 leaf holding `value` with the given prefix (237-242, 268-274).
new_leaf(prefix, value) ==
  [new_node("N0") EXCEPT !.prefix = prefix, !.value = value]

\* A memmove that drops the first m prefix bytes only: the byte that became
\* the partial key stays in the prefix.
shift_prefix_keeping_key(sub, m) ==
  [sub EXCEPT ![<<>>].prefix = Tail_(@, m)]

\* memmove of 201-203 and 233-235: the first m + 1 prefix bytes are dropped.
shift_prefix(sub, m) ==
  [sub EXCEPT ![<<>>].prefix = Tail_(@, m + 1)]

\* Faults of calling set_child(b, ...) on the root of sub: the node must
\* not be full and must have no child under b.
set_child_faults(sub, b) ==
  IF is_full(sub, <<>>) \/ <<b>> \in DOMAIN sub
  THEN {"set_child_precondition"} ELSE {}

\* 176-207: the key ends inside the node's prefix.
set_expand(t, cur, value, m, f) ==
  LET n == t[cur]
      new_node_ == [new_node("N4") EXCEPT !.value = value,
                                          !.prefix = SubSeq(n.prefix, 1, m)]
      moved == shift_prefix(subtree(t, cur), m)
  IN  [tree |-> store(t, cur, set_child(single(new_node_), n.prefix[m + 1], moved)),
       ret |-> nullptr,
       faults |-> f \cup set_child_faults(single(new_node_), n.prefix[m + 1]),
       kase |-> "expand"]

\* 209-247: the key and the node's prefix disagree at offset m.
set_split(t, key, value, cur, depth, m, f) ==
  LET n == t[cur]
      new_parent == [new_node("N4") EXCEPT !.prefix = SubSeq(n.prefix, 1, m)]
      moved == shift_prefix(subtree(t, cur), m)
      leaf == new_leaf(Tail_(key, depth + m + 1), value)
      with_old == set_child(single(new_parent), n.prefix[m + 1], moved)
  IN  [tree |-> store(t, cur, set_child(with_old, key[depth + m + 1], single(leaf))),
       ret |-> nullptr,
       faults |-> f \cup set_child_faults(single(new_parent), n.prefix[m + 1])
                    \cup set_child_faults(with_old, key[depth + m + 1]),
       kase |-> "split"]

\* A set that attaches the new leaf without growing the node.
never_grow(t, cur) == t

\* 264-266: a full node is replaced by its grown copy.
grow_if_full(t, cur) == IF is_full(t, cur) THEN grow(t, cur) ELSE t

\* 252-277: no child under the next byte; grow when full, then attach a leaf.
set_attach(t, key, value, cur, depth, f) ==
  LET n == t[cur]
      full == is_full(t, cur)
      t1 == grow_if_full(t, cur)
      f1 == IF full THEN f \cup release(n) ELSE f
      plen == Len(n.prefix)
      leaf == new_leaf(Tail_(key, depth + plen + 1), value)
  IN  [tree |-> store(t1, cur,
                      set_child(subtree(t1, cur), key[depth + plen + 1], single(leaf))),
       ret |-> nullptr,
       faults |-> f1 \cup set_child_faults(subtree(t1, cur), key[depth + plen + 1]),
       kase |-> IF full THEN "grow_attach" ELSE "attach"]

RECURSIVE set_loop(_, _, _, _, _, _)
set_loop(t, key, value, cur, depth, f) ==
  LET n == t[cur]
      f1 == f \cup touch(n)
      prefix_match_len == check_prefix(n.prefix, Tail_(key, depth))
      is_prefix_match ==
        Min2(Len(n.prefix), Len(key) - depth) = prefix_match_len
      child == find_child(t, cur, key[depth + Len(n.prefix) + 1])
  IN  IF is_prefix_match /\ Len(n.prefix) = Len(key) - depth
      THEN [tree |-> [t EXCEPT ![cur].value = value],
            ret |-> n.value, faults |-> f1, kase |-> "replace"]
      ELSE IF is_prefix_match /\ Len(n.prefix) > Len(key) - depth
      THEN set_expand(t, cur, value, prefix_match_len, f1)
      ELSE IF ~is_prefix_match
      THEN set_split(t, key, value, cur, depth, prefix_match_len, f1)
      ELSE IF child = null_slot
      THEN set_attach(t, key, value, cur, depth, f1)
      ELSE set_loop(t, key, value, child, depth + Len(n.prefix) + 1, f1)

set(t, key, value) ==
  IF <<>> \notin DOMAIN t
  THEN [tree |-> single(new_leaf(key, value)),
        ret |-> nullptr, faults |-> {}, kase |-> "empty"]
  ELSE set_loop(t, key, value, <<>>, 0, {})

(***************************************************************************)
(* del (art.hpp 296-455).  g is the byte an uninitialised prefix cell      *)
(* happens to hold.  The result names the branch taken (kase), the parent  *)
(* slot pointer the branch used (par) and the number of allocated nodes    *)
(* it made unreachable without releasing them (leaked).  Each branch       *)
(* reports the allocations less the releases it made (net).                *)
(***************************************************************************)
\* Number of nodes of t that are allocated and not released.
live_count(t) == Cardinality({q \in DOMAIN t : t[q].live})

\* 1 when releasing n releases a node that was still allocated.
freed(n) == IF n.live THEN 1 ELSE 0

\* A merge that leaves the child's partial key out of the new prefix.
merged_prefix_without_key(prefix, child_partial_key, old_prefix) ==
  prefix \o old_prefix

\* 428-433: the child's new prefix, written parent bytes first, then the
\* child's partial key, then the child's old prefix.
merged_prefix(prefix, child_partial_key, old_prefix) ==
  prefix \o <<child_partial_key>> \o old_prefix

\* 369-375: the sibling's new prefix.  The partial key is written to cell
\* prefix_len_ + 1 and then overwritten by the old prefix, so cell
\* prefix_len_ is never written: it holds g.
sibling_prefix(prefix, sibling_partial_key, old_prefix, g) ==
  prefix \o <<g>> \o old_prefix

\* 449-452: the parent pointer after one step down.  par is not assigned
\* in the loop: it keeps the value it was initialised with at 302.
par_after_step(par, cur) == par

\* 326-343: leaf without siblings.
del_leaf_alone(t, par, cur, cur_partial_key) ==
  IF par # null_slot
  THEN [tree |-> del_child(t, par, cur_partial_key), faults |-> release(t[cur]),
        net |-> -freed(t[cur])]
  ELSE [tree |-> [t EXCEPT ![cur].live = FALSE], faults |-> release(t[cur]),
        net |-> -freed(t[cur])]

\* 345-388: leaf with one sibling under a parent without value.
del_leaf_collapse(t, par, cur, cur_partial_key, g) ==
  LET first == next_partial_key(t, par, 0)
      sibling_partial_key ==
        IF first = cur_partial_key
        THEN next_partial_key(t, par, cur_partial_key + 1) ELSE first
      sibling == subtree(t, Append(par, sibling_partial_key))
      old_prefix == sibling[<<>>].prefix
      moved == [sibling EXCEPT ![<<>>].prefix =
                  sibling_prefix(t[par].prefix, sibling_partial_key, old_prefix, g)]
  IN  [tree |-> store(t, par, moved),
       faults |-> release(t[cur]) \cup release(t[par]) \cup touch(sibling[<<>>])
                  \cup (IF Len(old_prefix) = 0 THEN {"heap_overflow"} ELSE {}),
       net |-> -freed(t[cur]) - freed(t[par])]

\* 390-408: leaf with two or more siblings.
del_leaf_detach(t, par, cur, cur_partial_key) ==
  [tree |-> del_child(t, par, cur_partial_key), faults |-> release(t[cur]),
   net |-> -freed(t[cur])]

\* 409-441: node with one child.
del_merge_child(t, cur) ==
  LET child_partial_key == next_partial_key(t, cur, 0)
      child == subtree(t, Append(cur, child_partial_key))
      old_prefix == child[<<>>].prefix
      moved == [child EXCEPT ![<<>>].prefix =
                  merged_prefix(t[cur].prefix, child_partial_key, old_prefix)]
  IN  [tree |-> store(t, cur, moved),
       faults |-> release(t[cur]) \cup release(child[<<>>]),
       net |-> -freed(t[cur])]

\* 443-445: shrink the parent when it is underfull.
del_shrink(t, par) ==
  IF par # null_slot /\ is_underfull(t, par)
  THEN [tree |-> shrink(t, par), faults |-> release(t[par]),
        net |-> 1 - freed(t[par])]
  ELSE [tree |-> t, faults |-> {}, net |-> 0]

\* 318-447: the key ends at the node in slot cur.
del_match(t, par, cur, cur_partial_key, g, f) ==
  LET value == t[cur].value
      t0 == [t EXCEPT ![cur].value = nullptr]
      n_children_ == n_children(t0, cur)
      n_siblings == IF par # null_slot THEN n_children(t0, par) - 1 ELSE 0
      kase ==
        CASE n_children_ = 0 /\ n_siblings = 0 -> "leaf_alone"
          [] n_children_ = 0 /\ n_siblings = 1 /\ t0[par].value = nullptr
               -> "leaf_collapse"
          [] n_children_ = 0 /\ n_siblings > 1 -> "leaf_detach"
          [] n_children_ = 1 -> "merge_child"
          [] OTHER -> "none"
      r == CASE kase = "leaf_alone" -> del_leaf_alone(t0, par, cur, cur_partial_key)
             [] kase = "leaf_collapse" ->
                  del_leaf_collapse(t0, par, cur, cur_partial_key, g)
             [] kase = "leaf_detach" -> del_leaf_detach(t0, par, cur, cur_partial_key)
             [] kase = "merge_child" -> del_merge_child(t0, cur)
             [] OTHER -> [tree |-> t0, faults |-> {}, net |-> 0]
      s == del_shrink(r.tree, par)
  IN  [tree |-> s.tree, ret |-> value,
       faults |-> f \cup r.faults \cup s.faults,
       kase |-> kase, par |-> par, n_siblings |-> n_siblings,
       leaked |-> live_count(t0) + r.net + s.net - live_count(s.tree)]

RECURSIVE del_loop(_, _, _, _, _, _, _, _)
del_loop(t, key, par, cur, cur_partial_key, depth, g, f) ==
  IF cur = null_slot
  THEN [tree |-> t, ret |-> nullptr, faults |-> f, kase |-> "no_child",
        par |-> par, n_siblings |-> 0, leaked |-> 0]
  ELSE
    LET n == t[cur]
        f1 == f \cup touch(n)
        b == key[depth + Len(n.prefix) + 1]
    IN  IF Len(n.prefix) # check_prefix(n.prefix, Tail_(key, depth))
        THEN [tree |-> t, ret |-> nullptr, faults |-> f1, kase |-> "mismatch",
              par |-> par, n_siblings |-> 0, leaked |-> 0]
        ELSE IF Len(key) = depth + Len(n.prefix)
        THEN del_match(t, par, cur, cur_partial_key, g, f1)
        ELSE del_loop(t, key, par_after_step(par, cur), find_child(t, cur, b), b,
                      depth + Len(n.prefix) + 1, g, f1)

del(t, key, g) ==
  IF <<>> \notin DOMAIN t
  THEN [tree |-> t, ret |-> nullptr, faults |-> {}, kase |-> "empty",
        par |-> null_slot, n_siblings |-> 0, leaked |-> 0]
  ELSE del_loop(t, key, null_slot, <<>>, 0, 0, g, {})

(***************************************************************************)
(* ~art (art.hpp 84-103): every node the root reaches through child maps   *)
(* is popped once and released.  ret is the number of nodes the traversal  *)
(* released although they had been released before.                        *)
(***************************************************************************)
drop(t) ==
  [tree |-> [q \in DOMAIN t |-> [t[q] EXCEPT !.live = FALSE]],
   ret |-> Cardinality({q \in DOMAIN t : ~t[q].live}),
   faults |-> UNION {release(t[q]) : q \in DOMAIN t}]

(***************************************************************************)
(* The state machine.  ref is the reference map the same calls drive;      *)
(* last records the call that ran last and what it returned.               *)
(***************************************************************************)
Call(op, key, value, ret, kase, par, n_siblings) ==
  [op |-> op, key |-> key, value |-> value, ret |-> ret, kase |-> kase,
   par |-> par, n_siblings |-> n_siblings]

\* The reference map: the keys that are bound, each with its value.
bind(m, key, value) ==
  [k \in DOMAIN m \cup {key} |-> IF k = key THEN value ELSE m[k]]

unbind(m, key) == [k \in DOMAIN m \ {key} |-> m[k]]

bound_value(m, key) == IF key \in DOMAIN m THEN m[key] ELSE nullptr

Init ==
  /\ root_ = [q \in {} |-> new_node("N0")]
  /\ ref = [k \in {} |-> nullptr]
  /\ last = Call("new", <<>>, nullptr, nullptr, "", null_slot, 0)
  /\ faults = {}
  /\ leaked = 0
  /\ crashed = FALSE
  /\ dropped = FALSE
  /\ nops = 0

\* What a call that has undefined behaviour may do: run on, or trap.
Outcomes(f) == IF f = {} THEN {"return"} ELSE {"return", "trap"}

Running == ~crashed /\ ~dropped

Finish(o, c, tree, f, leak, newref) ==
  /\ faults' = faults \cup f
  /\ crashed' = (o = "trap")
  /\ root_' = IF o = "trap" THEN root_ ELSE tree
  /\ leaked' = IF o = "trap" THEN leaked ELSE leaked + leak
  /\ ref' = IF o = "trap" THEN ref ELSE newref
  /\ last' = IF o = "trap" THEN [c EXCEPT !.ret = trap, !.kase = "trap"] ELSE c

Get(key) ==
  /\ Running
  /\ LET r == get(root_, key)
     IN  \E o \in Outcomes(r.faults) :
           Finish(o, Call("get", key, nullptr, r.ret, "", null_slot, 0),
                  root_, r.faults, 0, ref)
  /\ UNCHANGED dropped

Set(key, value) ==
  /\ Running
  /\ LET r == set(root_, key, value)
     IN  \E o \in Outcomes(r.faults) :
           Finish(o, Call("set", key, value, r.ret, r.kase, null_slot, 0),
                  r.tree, r.faults, 0, bind(ref, key, value))
  /\ UNCHANGED dropped

\* The bytes the uninitialised cell of 369-375 may hold, when del(key)
\* reads that cell at all.
Gaps(t, key) ==
  IF del(t, key, 0).kase = "leaf_collapse" THEN GapBytes ELSE {0}

Del(key) ==
  /\ Running
  /\ \E g \in Gaps(root_, key) :
       LET r == del(root_, key, g)
       IN  \E o \in Outcomes(r.faults) :
             Finish(o, Call("del", key, nullptr, r.ret, r.kase, r.par, r.n_siblings),
                    r.tree, r.faults, r.leaked, unbind(ref, key))
  /\ UNCHANGED dropped

Drop ==
  /\ Running
  /\ LET r == drop(root_)
     IN  \E o \in Outcomes(r.faults) :
           /\ Finish(o, Call("drop", <<>>, nullptr, r.ret, "", null_slot, 0),
                     r.tree, r.faults, 0, ref)
           /\ dropped' = (o = "return")

GetAny == nops < MaxOps /\ nops' = nops + 1 /\ \E k \in Keys : Get(k)

SetAny == nops < MaxOps /\ nops' = nops + 1 /\ \E k \in Keys, v \in Values : Set(k, v)

DelAny == nops < MaxOps /\ nops' = nops + 1 /\ \E k \in Keys : Del(k)

DropAny == nops < MaxOps /\ nops' = nops + 1 /\ Drop

Next == SetAny \/ DelAny \/ GetAny \/ DropAny

Spec == Init /\ [][Next]_vars

(***************************************************************************)
(* The fan-out scenario: FanCount one-byte keys are set in ascending       *)
(* order, then the lowest or the highest key still bound is deleted until  *)
(* FanTarget keys remain; any key may be looked up in between.             *)
(***************************************************************************)
Bound == DOMAIN ref

FanSet ==
  /\ nops < FanCount
  /\ nops' = nops + 1
  /\ Set(<<nops>>, 1 + (nops % MaxVal))

FanDel ==
  /\ nops = FanCount
  /\ nops' = nops
  /\ Cardinality(Bound) > FanTarget
  /\ \E k \in Bound :
       /\ (\A j \in Bound : j[1] >= k[1]) \/ (\A j \in Bound : j[1] <= k[1])
       /\ Del(k)

FanGet == nops' = nops /\ \E k \in FanKeys : Get(k)

FanNext == FanSet \/ FanDel \/ FanGet

SpecFan == Init /\ [][FanNext]_vars

(***************************************************************************)
(* Vocabulary of the properties.                                           *)
(***************************************************************************)
\* The call r has defined behaviour and returns v.
Returns(r, v) == r.faults = {} /\ r.ret = v

Front(q) == SubSeq(q, 1, Len(q) - 1)

\* The slot of the node at which `key` ends exactly, or null_slot.
RECURSIVE where_loop(_, _, _, _)
where_loop(t, key, cur, depth) ==
  IF cur = null_slot THEN null_slot
  ELSE LET plen == Len(t[cur].prefix)
       IN  IF plen # check_prefix(t[cur].prefix, Tail_(key, depth)) THEN null_slot
           ELSE IF plen = Len(key) - depth THEN cur
           ELSE where_loop(t, key, find_child(t, cur, key[depth + plen + 1]),
                           depth + plen + 1)

where(t, key) ==
  where_loop(t, key, IF <<>> \in DOMAIN t THEN <<>> ELSE null_slot, 0)

\* The children of the node in slot q that have not been destroyed.
live_children(t, q) == {b \in partial_keys(t, q) : t[Append(q, b)].live}

\* key is bound at an allocated node.
BoundAt(t, key) ==
  /\ where(t, key) # null_slot
  /\ t[where(t, key)].live
  /\ t[where(t, key)].value # nullptr

\* The step is a completed del(key).
DelReturned(key) == last'.op = "del" /\ last'.key = key /\ last'.ret # trap

smallest_class(n) ==
  Classes[CHOOSE i \in 1..Len(Classes) :
            /\ capacity(Classes[i]) >= n
            /\ \A j \in 1..(i - 1) : capacity(Classes[j]) < n]

(***************************************************************************)
(* C1.  After any sequence of set and del calls on an initially empty      *)
(* tree, get(k) returns, for every key k, what a reference key->value map  *)
(* driven by the same calls holds for k: the value bound last, or absent.  *)
(***************************************************************************)
C1_GetAgreesWithReference ==
  Running => \A k \in Keys : Returns(get(root_, k), bound_value(ref, k))

(***************************************************************************)
(* C2.  In any reachable state, set(k, v) immediately followed by del(k):  *)
(* the del returns v and get(k) is absent afterwards.                      *)
(***************************************************************************)
C2_SetThenDel ==
  [][(last.op = "set" /\ last.ret # trap /\ last'.op = "del" /\ last'.key = last.key)
       => /\ last'.ret = last.value
          /\ Returns(get(root_', last.key), nullptr)]_vars

(***************************************************************************)
(* C3.  del(k) of a key that is not bound returns absent and leaves the    *)
(* tree as it was: same nodes, prefixes, values and child maps, and no     *)
(* node released.                                                          *)
(***************************************************************************)
C3_DelOfAbsentKeyIsNoOp ==
  [][(last'.op = "del" /\ last'.key \notin DOMAIN ref)
       => /\ last'.ret = nullptr
          /\ root_' = root_
          /\ faults' = faults]_vars

(***************************************************************************)
(* C4.  When del removes the key held by a root node without children,     *)
(* the root slot is absent afterwards: the tree is empty.                  *)
(***************************************************************************)
C4_DelOfLastKeyEmptiesTree ==
  [][\A k \in Keys :
       (/\ DelReturned(k)
        /\ BoundAt(root_, k)
        /\ where(root_, k) = <<>>
        /\ n_children(root_, <<>>) = 0)
       => <<>> \notin DOMAIN root_']_vars

(***************************************************************************)
(* C5.  Dropping the tree releases every node that is allocated and not    *)
(* yet destroyed exactly once: none is released twice, none is left.       *)
(***************************************************************************)
C5_DropReleasesEachNodeOnce ==
  dropped => /\ last.ret = 0
             /\ leaked = 0
             /\ \A q \in DOMAIN root_ : ~root_[q].live

(***************************************************************************)
(* C6.  Compression invariant: after every completed set or del no node    *)
(* reachable from the root has a parent, an empty value slot and fewer     *)
(* than 2 children.                                                        *)
(***************************************************************************)
C6_Compression ==
  Running =>
    \A q \in DOMAIN root_ :
      q # <<>> =>
        ~(root_[q].value = nullptr /\ Cardinality(live_children(root_, q)) < 2)

(***************************************************************************)
(* C7.  Size-class invariant: after every completed set or del every node  *)
(* reachable from the root has the smallest class whose capacity is at     *)
(* least its number of children.                                           *)
(***************************************************************************)
C7_SizeClass ==
  Running =>
    \A q \in DOMAIN root_ :
      root_[q].live =>
        root_[q].cls = smallest_class(Cardinality(live_children(root_, q)))

\* key is bound at an allocated leaf that has exactly one sibling, under an
\* allocated parent that holds no value.
LeafWithOneSibling(t, key) ==
  /\ BoundAt(t, key)
  /\ where(t, key) # <<>>
  /\ n_children(t, where(t, key)) = 0
  /\ LET p == Front(where(t, key))
     IN  /\ t[p].live
         /\ t[p].value = nullptr
         /\ n_children(t, p) = 2
         /\ Cardinality(live_children(t, p)) = 2

\* The tree after the parent of key's leaf is replaced by the leaf's sibling.
Collapsed(t, key) ==
  LET c == where(t, key)
      p == Front(c)
      b == CHOOSE x \in partial_keys(t, p) : x # c[Len(c)]
      sibling == subtree(t, Append(p, b))
  IN  store(t, p, [sibling EXCEPT ![<<>>].prefix = t[p].prefix \o <<b>> \o @])

(***************************************************************************)
(* C8.  When del removes a leaf that has exactly one sibling under a       *)
(* parent without value, the parent's slot then holds the sibling, whose   *)
(* prefix is the parent's prefix, then the sibling's partial key, then     *)
(* the sibling's old prefix; nothing else changes.                         *)
(***************************************************************************)
C8_LeafCollapse ==
  [][\A k \in Keys :
       (DelReturned(k) /\ LeafWithOneSibling(root_, k))
       => root_' = Collapsed(root_, k)]_vars

(***************************************************************************)
(* C9.  After del's structural change a parent that has become underfull   *)
(* is shrunk to the class below.  In the fan-out scenario, once the        *)
(* FanCount keys under the root are deleted down to FanTarget, the root    *)
(* is of class N4, and every key still bound is returned by get.           *)
(***************************************************************************)
C9_FanShrinksToN4 ==
  (Running /\ nops = FanCount /\ Cardinality(Bound) = FanTarget)
    => /\ root_[<<>>].cls = "N4"
       /\ \A k \in Bound : Returns(get(root_, k), bound_value(ref, k))

\* key is bound at an allocated node whose child map has one entry, and that
\* entry leads to an allocated node.
NodeWithOneChild(t, key) ==
  /\ BoundAt(t, key)
  /\ n_children(t, where(t, key)) = 1
  /\ Cardinality(live_children(t, where(t, key))) = 1

SetCalled(key, value) ==
  last'.op = "set" /\ last'.key = key /\ last'.value = value

(***************************************************************************)
(* C11.  In any reachable state, set(k, v) returns the value bound to      *)
(* exactly k before the call, or absent when k was not bound; afterwards   *)
(* get(k) returns v, and get returns for every other key what it returned  *)
(* before.                                                                 *)
(***************************************************************************)
C11_SetReturnsPreviousBinding ==
  [][\A k \in Keys, v \in Values :
       SetCalled(k, v)
       => /\ Returns(set(root_, k, v), bound_value(ref, k))
          /\ last'.ret = bound_value(ref, k)
          /\ Returns(get(root_', k), v)
          /\ \A k2 \in Keys \ {k} : get(root_', k2) = get(root_, k2)]_vars

(***************************************************************************)
(* C12.  The empty key is a key like any other: set("", v) leaves a root   *)
(* node with empty prefix that holds v, get("") then returns v and get     *)
(* returns for every other key what it returned before; and whenever the   *)
(* empty key is not bound, get("") returns absent, also when the root has  *)
(* an empty prefix.                                                        *)
(***************************************************************************)
C12_EmptyKey ==
  [][/\ \A v \in Values :
          SetCalled(<<>>, v)
          => /\ Returns(set(root_, <<>>, v), bound_value(ref, <<>>))
             /\ root_'[<<>>].live
             /\ root_'[<<>>].prefix = <<>>
             /\ root_'[<<>>].value = v
             /\ Returns(get(root_', <<>>), v)
             /\ \A k2 \in Keys \ {<<>>} : get(root_', k2) = get(root_, k2)
     /\ (~crashed' /\ ~dropped' /\ <<>> \notin DOMAIN ref')
          => Returns(get(root_', <<>>), nullptr)]_vars

(***************************************************************************)
(* The iterator (art.hpp 457-463).  tree_it.hpp is not part of the         *)
(* sources at hand: the traversal is modelled from the specification,      *)
(* section 4.5.  An iterator is modelled by the run it makes when it is    *)
(* advanced until it equals end(): the full keys it yields, in the order   *)
(* it yields them, and the faults of the nodes it visits.  The tree is     *)
(* not changed while an iterator is in use.                                *)
(***************************************************************************)
\* Lexicographic order of keys: byte by byte, a proper prefix first.
lex_less(a, b) ==
  LET m == check_prefix(a, b)
  IN  IF m = Len(a) THEN Len(b) > m
      ELSE IF m = Len(b) THEN FALSE
      ELSE a[m + 1] < b[m + 1]

\* end(): the run of a finished iterator.
end_ == [ret |-> <<>>, faults |-> {}]

\* The run x followed by the run y.
it_then(x, y) == [ret |-> x.ret \o y.ret, faults |-> x.faults \cup y.faults]

\* Visiting the node n, whose full key is key, and yielding the key if asked.
it_visit(n, key, yield) ==
  [ret |-> IF yield /\ n.value # nullptr THEN <<key>> ELSE <<>>,
   faults |-> touch(n)]

RECURSIVE it_walk(_, _, _)
RECURSIVE it_children(_, _, _, _)
RECURSIVE it_seek(_, _, _, _)

\* In-order traversal of the subtree in slot cur, whose root has the full
\* key `key`: the node's own value, then its children in ascending order of
\* their partial keys.
it_walk(t, cur, key) ==
  it_then(it_visit(t[cur], key, TRUE), it_children(t, cur, key, 0))

\* The children of the node in slot cur under the partial keys >= floor.
it_children(t, cur, key, floor) ==
  IF \A b \in partial_keys(t, cur) : b < floor THEN end_
  ELSE LET b == next_partial_key(t, cur, floor)
           c == Append(cur, b)
       IN  it_then(it_walk(t, c, key \o <<b>> \o t[c].prefix),
                   it_children(t, cur, key, b + 1))

\* Seek: the traversal of the subtree in slot cur from the smallest key
\* >= seek on.  `key` is the full key of the path down to the node's
\* prefix, which is compared to the seek bytes at that depth.
it_seek(t, cur, key, seek) ==
  LET n == t[cur]
      rest == Tail_(seek, Len(key))
      m == check_prefix(n.prefix, rest)
      full == key \o n.prefix
  IN  IF m = Len(rest)
      THEN it_walk(t, cur, full)
      ELSE IF m < Len(n.prefix)
      THEN IF n.prefix[m + 1] < rest[m + 1]
           THEN it_visit(n, full, FALSE)
           ELSE it_walk(t, cur, full)
      ELSE LET b == rest[m + 1]
               child == find_child(t, cur, b)
           IN  it_then(it_visit(n, full, FALSE),
                 it_then(IF child = null_slot THEN end_
                         ELSE it_seek(t, child, Append(full, b), seek),
                         it_children(t, cur, full, b + 1)))

\* The iterator over the tree t: a run over all of it.
tree_it(t) ==
  IF <<>> \notin DOMAIN t THEN end_ ELSE it_walk(t, <<>>, t[<<>>].prefix)

\* tree_it::greater_equal(root_, key): a run from the smallest key >= key.
greater_equal(t, key) ==
  IF <<>> \notin DOMAIN t THEN end_ ELSE it_seek(t, <<>>, <<>>, key)

\* 457: begin().
begin(t) == tree_it(t)

\* 459-461: begin(key).
begin_key(t, key) == greater_equal(t, key)

(***************************************************************************)
(* The iteration scenario: keys of IterKeys are set and deleted, at most   *)
(* IterOps calls in all, and then the tree is traversed once, in full or   *)
(* from a seek key of SeekKeys.  With a, b, c, z read as the bytes 0, 1,   *)
(* 2, 3 the keys are "", "a", "ab", "abc", "b", "ba", "bb" and "c"; the    *)
(* seek keys are these, "bab" and "z".                                     *)
(***************************************************************************)
IterOps == 5      \* set and del calls per behaviour of the scenario

IterKeys ==
  {<<>>, <<0>>, <<0, 1>>, <<0, 1, 2>>, <<1>>, <<1, 0>>, <<1, 1>>, <<2>>}

SeekKeys == IterKeys \cup {<<1, 0, 1>>, <<3>>}

Begin ==
  /\ Running
  /\ LET r == begin(root_)
     IN  \E o \in Outcomes(r.faults) :
           Finish(o, Call("begin", <<>>, nullptr, r.ret, "all", null_slot, 0),
                  root_, r.faults, 0, ref)
  /\ UNCHANGED dropped

BeginKey(key) ==
  /\ Running
  /\ LET r == begin_key(root_, key)
     IN  \E o \in Outcomes(r.faults) :
           Finish(o, Call("begin", key, nullptr, r.ret, "seek", null_slot, 0),
                  root_, r.faults, 0, ref)
  /\ UNCHANGED dropped

IterSet ==
  /\ last.op # "begin"
  /\ nops < IterOps
  /\ nops' = nops + 1
  /\ \E k \in IterKeys \ Bound : Set(k, 1 + (nops % MaxVal))

IterDel ==
  /\ last.op # "begin"
  /\ nops < IterOps
  /\ nops' = nops + 1
  /\ \E k \in Bound : Del(k)

IterBegin == last.op # "begin" /\ nops' = nops /\ Begin

IterSeek == last.op # "begin" /\ nops' = nops /\ \E s \in SeekKeys : BeginKey(s)

IterNext == IterSet \/ IterDel \/ IterBegin \/ IterSeek

SpecIter == Init /\ [][IterNext]_vars

\* The keys of the set S that are not smaller than `from`.
keys_from(S, from) == {k \in S : ~lex_less(k, from)}

\* The sequence ys holds every key of the set S once, in ascending order.
InOrder(ys, S) ==
  /\ Len(ys) = Cardinality(S)
  /\ {ys[i] : i \in 1..Len(ys)} = S
  /\ \A i \in 1..Len(ys) : \A j \in (i + 1)..Len(ys) : lex_less(ys[i], ys[j])

(***************************************************************************)
(* C13.  A full traversal from begin() to end() yields every key that is   *)
(* bound exactly once, in strict lexicographic order: of two bound keys    *)
(* the smaller is yielded first, and a key that is a proper prefix of      *)
(* another comes before it.                                                *)
(***************************************************************************)
C13_FullTraversalInOrder ==
  Running => /\ begin(root_).faults = {}
             /\ InOrder(begin(root_).ret, Bound)

(***************************************************************************)
(* C14.  For every tree and every seek key s, the traversal from begin(s)  *)
(* to end() yields exactly the bound keys >= s, in ascending order: it     *)
(* starts at the smallest bound key >= s and is end() at once when there   *)
(* is none.                                                                *)
(***************************************************************************)
C14_SeekTraversal ==
  Running =>
    \A s \in SeekKeys :
      /\ begin_key(root_, s).faults = {}
      /\ InOrder(begin_key(root_, s).ret, keys_from(Bound, s))

(***************************************************************************)
(* C15.  When del reaches the node at which the key ends below the root,   *)
(* the parent it uses is the slot of the node it came from, and the        *)
(* sibling count it branches on is that parent's number of children less   *)
(* one: it is 0 only for the root and for an only child.                   *)
(***************************************************************************)
C15_DelUsesParent ==
  [][\A k \in Keys :
       (/\ DelReturned(k)
        /\ where(root_, k) # null_slot
        /\ where(root_, k) # <<>>)
       => /\ last'.par = Front(where(root_, k))
          /\ last'.n_siblings = n_children(root_, Front(where(root_, k))) - 1]_vars

(***************************************************************************)
(* C16.  Node liveness: after every completed set or del every node the    *)
(* root slot reaches through child maps is allocated and not destroyed,    *)
(* and no get, set or del has read, written or destroyed a node that a     *)
(* del destroyed before.                                                   *)
(***************************************************************************)
C16_NodeLiveness ==
  /\ Running => \A q \in DOMAIN root_ : root_[q].live
  /\ faults = {}

\* key is bound at an allocated leaf below the root.
BoundAtLeaf(t, key) ==
  /\ BoundAt(t, key)
  /\ where(t, key) # <<>>
  /\ n_children(t, where(t, key)) = 0

(***************************************************************************)
(* C17.  del's cases are exhaustive for leaves: when del removes a key     *)
(* bound at a leaf below the root, whatever the number of the leaf's       *)
(* siblings and whether or not its parent holds a value, the leaf is       *)
(* removed from the child map that led to it: afterwards the key ends at   *)
(* no node, and no value-less leaf is left in its place.                   *)
(***************************************************************************)
C17_DelRemovesLeaf ==
  [][\A k \in Keys :
       (DelReturned(k) /\ BoundAtLeaf(root_, k))
       => where(root_', k) = null_slot]_vars

(***************************************************************************)
(* C18.  Two-level collapse: when del removes a leaf that has exactly one  *)
(* sibling under a parent without value, and the underfull check then      *)
(* runs on the parent's slot, the node left in that slot is the sibling    *)
(* with all of its children and its value, its prefix is the parent's      *)
(* prefix, then the sibling's partial key, then the sibling's old prefix,  *)
(* and get still returns the value of every other bound key.               *)
(***************************************************************************)
C18_TwoLevelCollapse ==
  [][\A k \in Keys :
       (DelReturned(k) /\ LeafWithOneSibling(root_, k))
       => LET c == where(root_, k)
              p == Front(c)
              b == CHOOSE x \in partial_keys(root_, p) : x # c[Len(c)]
              sibling == root_[Append(p, b)]
          IN  /\ p \in DOMAIN root_'
              /\ root_'[p].live
              /\ root_'[p].value = sibling.value
              /\ partial_keys(root_', p) = partial_keys(root_, Append(p, b))
              /\ root_'[p].prefix = root_[p].prefix \o <<b>> \o sibling.prefix
              /\ \A k2 \in Keys \ {k} :
                    Returns(get(root_', k2), bound_value(ref, k2))]_vars

\* Where set(key, ...) stops its descent in t: the slot of the node it
\* stops at, the depth of that node's prefix in the key and the number m of
\* prefix bytes that agree with the key from there.
RECURSIVE stop_loop(_, _, _, _)
stop_loop(t, key, cur, depth) ==
  LET p == t[cur].prefix
      m == check_prefix(p, Tail_(key, depth))
  IN  IF /\ m = Len(p)
         /\ Len(key) - depth > m
         /\ Append(cur, key[depth + m + 1]) \in DOMAIN t
      THEN stop_loop(t, key, Append(cur, key[depth + m + 1]), depth + m + 1)
      ELSE [cur |-> cur, depth |-> depth, m |-> m]

\* set(key, ...) meets in t an allocated node whose prefix disagrees with
\* the key: at offset m, inside the prefix and inside the rest of the key.
MeetsMismatch(t, key) ==
  /\ <<>> \in DOMAIN t
  /\ set(t, key, nullptr).faults = {}
  /\ LET s == stop_loop(t, key, <<>>, 0)
     IN  s.m < Len(t[s.cur].prefix) /\ s.m < Len(key) - s.depth

(***************************************************************************)
(* C19.  When set meets a node whose prefix p disagrees with the key at    *)
(* offset m, the node's slot afterwards holds a new N4 node with prefix    *)
(* p[0..m], no value and exactly two children: under p[m] the old node,    *)
(* its prefix cut to p[m+1..] and its value and children as they were,     *)
(* and under the key's byte at that offset a new N0 leaf with the rest of  *)
(* the key as prefix and the value v.  Nothing outside the slot changes    *)
(* and set returns absent.                                                 *)
(***************************************************************************)
C19_SetSplitsOnMismatch ==
  [][\A k \in Keys, v \in Values :
       (SetCalled(k, v) /\ MeetsMismatch(root_, k))
       => LET s == stop_loop(root_, k, <<>>, 0)
              c == s.cur
              p == root_[c].prefix
              old == p[s.m + 1]
              new == k[s.depth + s.m + 1]
          IN  /\ last'.ret = nullptr
              /\ root_'[c] = [cls |-> "N4", prefix |-> SubSeq(p, 1, s.m),
                              value |-> nullptr, live |-> TRUE]
              /\ partial_keys(root_', c) = {old, new}
              /\ old # new
              /\ subtree(root_', Append(c, old)) =
                   [subtree(root_, c) EXCEPT
                      ![<<>>].prefix = SubSeq(p, s.m + 2, Len(p))]
              /\ subtree(root_', Append(c, new)) =
                   single([cls |-> "N0", value |-> v, live |-> TRUE,
                           prefix |-> SubSeq(k, s.depth + s.m + 2, Len(k))])
              /\ \A q \in DOMAIN root_ \cup DOMAIN root_' :
                    ~IsPrefixOf(c, q)
                    => q \in DOMAIN root_ /\ q \in DOMAIN root_'
                       /\ root_'[q] = root_[q]]_vars

\* C19, reached: a set has just split a node whose prefix shares its first
\* byte with the key; the new root keeps that byte as prefix and has two
\* children, of which the new leaf holds the value.
C19_Witness ==
  /\ last.op = "set"
  /\ last.kase = "split"
  /\ faults = {}
  /\ Len(last.key) = 2
  /\ root_[<<>>].cls = "N4"
  /\ root_[<<>>].prefix = <<last.key[1]>>
  /\ n_children(root_, <<>>) = 2
  /\ <<last.key[2]>> \in DOMAIN root_
  /\ root_[<<last.key[2]>>].value = last.value

(***************************************************************************)
(* C20.  set never violates the precondition of set_child: in every        *)
(* reachable state, every set_child call a set makes is on a node that is  *)
(* not full for its class and has no child under that partial key.         *)
(***************************************************************************)
C20_SetChildPrecondition ==
  [][last'.op = "set"
       => "set_child_precondition" \notin set(root_, last'.key, last'.value).faults]_vars

\* C20, reached: each of the set_child calls of set has been made without
\* a fault: on a node grown because it was full, or on the new parent of a
\* split.
C20_Witness ==
  /\ last.op = "set"
  /\ last.kase \in {"grow_attach", "split"}
  /\ last.ret = nullptr
  /\ "set_child_precondition" \notin faults
  /\ n_children(root_, <<>>) >= 1
  /\ ~is_full(root_, <<>>)

====
